---- MODULE Spec2Model ----
(***************************************************************************)
(* A model of the civogo volume and firewall client (src/volume.go).       *)
(*                                                                         *)
(* The client holds no state of its own: every exported method is one     *)
(* synchronous call that sends requests to the API and turns the answers   *)
(* into a return value and an error.  The state of the model is therefore  *)
(*   - what the API answers (srv...), chosen by Init and fixed afterwards, *)
(*   - the last call: its name, its argument, the requests it issued, its  *)
(*     return value, its error and the final value of its loop locals.     *)
(*                                                                         *)
(* Go strings are TLA+ strings; a Go slice is a record [isNil, elems], so  *)
(* that a nil slice and an empty slice are different values; a pointer     *)
(* result is a record [isNil, val]; an error is a record [type, msg,       *)
(* decoded] and the nil error is NilErr.                                   *)
(***************************************************************************)
EXTENDS Integers, Sequences, FiniteSets, TLC

VARIABLES
    srvVolumes,     \* the answer of the API to GET /v2/volumes
    srvFirewalls,   \* the answer of the API to GET /v2/firewalls
    srvClusters,    \* the outcome of c.ListKubernetesClusters()
    srvLookup,      \* the outcome of c.FindKubernetesCluster(clusterID)
    srvWrite,       \* the answer of the API to a POST, PUT or DELETE
    op,             \* the method called last ("none" before the first call)
    arg,            \* its arguments
    requests,       \* the requests it issued through c.Send...Request
    ret,            \* its first return value
    err,            \* its second return value
    locals          \* the final values of its loop variables

vars == <<srvVolumes, srvFirewalls, srvClusters, srvLookup, srvWrite,
          op, arg, requests, ret, err, locals>>

srv == <<srvVolumes, srvFirewalls, srvClusters, srvLookup, srvWrite>>

----------------------------------------------------------------------------
(* Bounds of the model. *)

MaxVolumes == 3      \* longest volume listing
MaxFirewalls == 3    \* longest firewall listing
MaxClusters == 2     \* longest cluster listing

SeqsUpTo(S, n) == UNION {[1..k -> S] : k \in 0..n}

----------------------------------------------------------------------------
(* Values. *)

NilErr == [type |-> "nil", msg |-> "", decoded |-> FALSE]

NilSlice == [isNil |-> TRUE, elems |-> <<>>]

\* make([]T, 0)
MakeSlice == [isNil |-> FALSE, elems |-> <<>>]

\* append(s, v): the result is never nil
append(s, v) == [isNil |-> FALSE, elems |-> Append(s.elems, v)]

\* Volume{} : the zero value
ZeroVolume == [ID |-> "", Name |-> "", ClusterID |-> ""]

ZeroFirewall == [ID |-> "", Name |-> ""]

NilPtr(zero) == [isNil |-> TRUE, val |-> zero]

Ptr(v) == [isNil |-> FALSE, val |-> v]

NoLocals == [none |-> TRUE]

\* fmt.Errorf(msg)
Errorf(msg) == [type |-> "errorString", msg |-> msg, decoded |-> FALSE]

\* MultipleMatchesError.wrap(err), ZeroMatchesError.wrap(err)
wrap(type, e) == [type |-> type, msg |-> e.msg, decoded |-> FALSE]

\* decodeError(err): nil stays nil; an error is translated into the
\* library's error for it, which keeps its kind.
decodeError(e) == IF e = NilErr THEN NilErr ELSE [e EXCEPT !.decoded = TRUE]

\* strings.Contains(s, substr)
Contains(s, substr) ==
    \E i \in 1..(Len(s) - Len(substr) + 1) :
        SubSeq(s, i, i + Len(substr) - 1) = substr

----------------------------------------------------------------------------
(* The transport and the JSON decoder. *)

TransportErr == [type |-> "TransportError", msg |-> "request failed", decoded |-> FALSE]

JsonErr == [type |-> "DecodeError", msg |-> "json: cannot unmarshal", decoded |-> FALSE]

NotFoundErr == [type |-> "NotFoundError", msg |-> "not found", decoded |-> FALSE]

\* What the API can answer to a listing request over the elements S:
\* a transport failure, or a body that is a JSON array, the JSON literal
\* null, or something that is no JSON array.
ArrayBody(l) == [kind |-> "array", items |-> l]

NullBody == [kind |-> "null", items |-> <<>>]

MalformedBody == [kind |-> "malformed", items |-> <<>>]

GetAnswers(S, n) ==
    {[err |-> NilErr, body |-> ArrayBody(l)] : l \in SeqsUpTo(S, n)}
    \cup {[err |-> NilErr, body |-> NullBody],
          [err |-> NilErr, body |-> MalformedBody],
          [err |-> TransportErr, body |-> MalformedBody]}

NoAnswer == [err |-> TransportErr, body |-> MalformedBody]

\* c.SendGetRequest(path): the request that goes out and what comes back
SendGetRequest(path) ==
    LET answer == IF path = "/v2/volumes" THEN srvVolumes
                  ELSE IF path = "/v2/firewalls" THEN srvFirewalls
                  ELSE NoAnswer
    IN  [req |-> [method |-> "GET", path |-> path],
         err |-> answer.err, resp |-> answer.body]

\* json.NewDecoder(bytes.NewReader(resp)).Decode(&slice): a JSON array
\* replaces the slice by its elements in order, the literal null sets the
\* slice to nil, anything else is an error and leaves the slice alone.
DecodeSlice(resp, into) ==
    IF resp.kind = "array" THEN [val |-> [isNil |-> FALSE, elems |-> resp.items], err |-> NilErr]
    ELSE IF resp.kind = "null" THEN [val |-> NilSlice, err |-> NilErr]
    ELSE [val |-> into, err |-> JsonErr]

----------------------------------------------------------------------------
(* Listing and lookup of volumes. *)

ListVolumes ==
    LET r == SendGetRequest("/v2/volumes")
        d == DecodeSlice(r.resp, MakeSlice)
    IN  IF r.err # NilErr
        THEN [val |-> NilSlice, err |-> decodeError(r.err), requests |-> <<r.req>>]
        ELSE IF d.err # NilErr
        THEN [val |-> NilSlice, err |-> d.err, requests |-> <<r.req>>]
        ELSE [val |-> d.val, err |-> NilErr, requests |-> <<r.req>>]

\* The locals of FindVolume before its loop.
FindVolumeStart ==
    [exactMatch |-> FALSE, partialMatchesCount |-> 0, result |-> ZeroVolume, scanned |-> 0]

\* As FindVolumeBody, without the test of exactMatch that guards a partial match.
FindVolumeBodyUnguarded(value, search, st) ==
    LET seen == [st EXCEPT !.scanned = @ + 1]
    IN  IF value.Name = search \/ value.ID = search
        THEN [seen EXCEPT !.exactMatch = TRUE, !.result = value]
        ELSE IF Contains(value.Name, search) \/ Contains(value.ID, search)
        THEN [seen EXCEPT !.result = value, !.partialMatchesCount = @ + 1]
        ELSE seen

\* As FindVolumeBody, matching the name alone.
FindVolumeBodyNameOnly(value, search, st) ==
    LET seen == [st EXCEPT !.scanned = @ + 1]
    IN  IF value.Name = search
        THEN [seen EXCEPT !.exactMatch = TRUE, !.result = value]
        ELSE IF Contains(value.Name, search)
        THEN IF ~st.exactMatch
             THEN [seen EXCEPT !.result = value, !.partialMatchesCount = @ + 1]
             ELSE seen
        ELSE seen

\* As FindVolumeBody, keeping the first exact match.
FindVolumeBodyFirstExact(value, search, st) ==
    LET seen == [st EXCEPT !.scanned = @ + 1]
    IN  IF value.Name = search \/ value.ID = search
        THEN IF st.exactMatch THEN seen
             ELSE [seen EXCEPT !.exactMatch = TRUE, !.result = value]
        ELSE IF Contains(value.Name, search) \/ Contains(value.ID, search)
        THEN IF ~st.exactMatch
             THEN [seen EXCEPT !.result = value, !.partialMatchesCount = @ + 1]
             ELSE seen
        ELSE seen

\* The body of the loop of FindVolume, for one element.
FindVolumeBody(value, search, st) ==
    LET seen == [st EXCEPT !.scanned = @ + 1]
    IN  IF value.Name = search \/ value.ID = search
        THEN [seen EXCEPT !.exactMatch = TRUE, !.result = value]
        ELSE IF Contains(value.Name, search) \/ Contains(value.ID, search)
        THEN IF ~st.exactMatch
             THEN [seen EXCEPT !.result = value, !.partialMatchesCount = @ + 1]
             ELSE seen
        ELSE seen

RECURSIVE FindVolumeLoop(_, _, _, _)
FindVolumeLoop(volumes, search, i, st) ==
    IF i > Len(volumes) THEN st
    ELSE FindVolumeLoop(volumes, search, i + 1, FindVolumeBody(volumes[i], search, st))

\* As FindVolumeResolve, returning the last partial match when there are several.
FindVolumeResolveAnyPartial(st, search) ==
    IF st.exactMatch \/ st.partialMatchesCount >= 1
    THEN [val |-> Ptr(st.result), err |-> NilErr]
    ELSE [val |-> NilPtr(ZeroVolume),
          err |-> wrap("ZeroMatchesError",
                       Errorf("unable to find " \o search \o ", zero matches"))]

\* The if-chain that ends FindVolume.
FindVolumeResolve(st, search) ==
    IF st.exactMatch \/ st.partialMatchesCount = 1
    THEN [val |-> Ptr(st.result), err |-> NilErr]
    ELSE IF st.partialMatchesCount > 1
    THEN [val |-> NilPtr(ZeroVolume),
          err |-> wrap("MultipleMatchesError",
                       Errorf("unable to find " \o search \o " because there were multiple matches"))]
    ELSE [val |-> NilPtr(ZeroVolume),
          err |-> wrap("ZeroMatchesError",
                       Errorf("unable to find " \o search \o ", zero matches"))]

FindVolume(search) ==
    LET lv == ListVolumes
        st == FindVolumeLoop(lv.val.elems, search, 1, FindVolumeStart)
        out == FindVolumeResolve(st, search)
    IN  IF lv.err # NilErr
        THEN [val |-> NilPtr(ZeroVolume), err |-> decodeError(lv.err),
              requests |-> lv.requests, locals |-> NoLocals]
        ELSE [val |-> out.val, err |-> out.err, requests |-> lv.requests, locals |-> st]

----------------------------------------------------------------------------
(* Listing and lookup of firewalls. *)

ListFirewalls ==
    LET r == SendGetRequest("/v2/firewalls")
        d == DecodeSlice(r.resp, MakeSlice)
    IN  IF r.err # NilErr
        THEN [val |-> NilSlice, err |-> r.err, requests |-> <<r.req>>]
        ELSE IF d.err # NilErr
        THEN [val |-> NilSlice, err |-> d.err, requests |-> <<r.req>>]
        ELSE [val |-> d.val, err |-> NilErr, requests |-> <<r.req>>]

\* The locals of FindFirewall before its loop; found is a Go index, from 0,
\* and multiple says that the loop returned the multiple-matches error.
FindFirewallStart == [found |-> -1, scanned |-> 0, multiple |-> FALSE]

\* As FindFirewallBody, taking a firewall equal to the search without
\* looking at earlier hits.
FindFirewallBodyExactWins(firewall, search, i, st) ==
    LET seen == [st EXCEPT !.scanned = @ + 1]
    IN  IF firewall.ID = search \/ firewall.Name = search
        THEN [seen EXCEPT !.found = i]
        ELSE IF Contains(firewall.ID, search) \/ Contains(firewall.Name, search)
        THEN IF st.found # -1
             THEN [seen EXCEPT !.multiple = TRUE]
             ELSE [seen EXCEPT !.found = i]
        ELSE seen

\* The body of the loop of FindFirewall, for the element of index i.
FindFirewallBody(firewall, search, i, st) ==
    LET seen == [st EXCEPT !.scanned = @ + 1]
    IN  IF Contains(firewall.ID, search) \/ Contains(firewall.Name, search)
        THEN IF st.found # -1
             THEN [seen EXCEPT !.multiple = TRUE]
             ELSE [seen EXCEPT !.found = i]
        ELSE seen

\* The loop of FindFirewall: it ends at the end of the listing or at the
\* return inside the body.
RECURSIVE FindFirewallLoop(_, _, _, _)
FindFirewallLoop(firewalls, search, i, st) ==
    IF i >= Len(firewalls) THEN st
    ELSE LET next == FindFirewallBody(firewalls[i + 1], search, i, st)
         IN  IF next.multiple THEN next
             ELSE FindFirewallLoop(firewalls, search, i + 1, next)

FindFirewall(search) ==
    LET lf == ListFirewalls
        st == FindFirewallLoop(lf.val.elems, search, 0, FindFirewallStart)
    IN  IF lf.err # NilErr
        THEN [val |-> NilPtr(ZeroFirewall), err |-> lf.err,
              requests |-> lf.requests, locals |-> NoLocals]
        ELSE IF st.multiple
        THEN [val |-> NilPtr(ZeroFirewall),
              err |-> Errorf("unable to find " \o search \o " because there were multiple matches"),
              requests |-> lf.requests, locals |-> st]
        ELSE IF st.found = -1
        THEN [val |-> NilPtr(ZeroFirewall),
              err |-> Errorf("unable to find " \o search \o ", zero matches"),
              requests |-> lf.requests, locals |-> st]
        ELSE [val |-> Ptr(lf.val.elems[st.found + 1]), err |-> NilErr,
              requests |-> lf.requests, locals |-> st]

----------------------------------------------------------------------------
(* The volume queries that depend on the clusters. *)

\* c.FindKubernetesCluster(clusterID): the cluster found, or an error
FindKubernetesCluster(clusterID) == srvLookup

\* c.ListKubernetesClusters(): the clusters, or an error
ListKubernetesClusters == srvClusters

\* As ListVolumesForClusterBody, keeping the volumes of the other clusters.
ListVolumesForClusterBodyOthers(vol, cluster, vols) ==
    IF vol.ClusterID # ""
    THEN IF cluster.ID # vol.ClusterID THEN append(vols, vol) ELSE vols
    ELSE vols

\* The body of the loop of ListVolumesForCluster.
ListVolumesForClusterBody(vol, cluster, vols) ==
    IF vol.ClusterID # ""
    THEN IF cluster.ID = vol.ClusterID THEN append(vols, vol) ELSE vols
    ELSE vols

RECURSIVE ListVolumesForClusterLoop(_, _, _, _)
ListVolumesForClusterLoop(volumes, cluster, i, vols) ==
    IF i > Len(volumes) THEN vols
    ELSE ListVolumesForClusterLoop(volumes, cluster, i + 1,
             ListVolumesForClusterBody(volumes[i], cluster, vols))

ListVolumesForCluster(clusterID) ==
    LET found == FindKubernetesCluster(clusterID)
        lv == ListVolumes
    IN  IF found.err # NilErr
        THEN [val |-> NilSlice, err |-> found.err, requests |-> <<>>]
        ELSE IF lv.err # NilErr
        THEN [val |-> NilSlice, err |-> decodeError(lv.err), requests |-> lv.requests]
        ELSE [val |-> ListVolumesForClusterLoop(lv.val.elems, found.cluster, 1, NilSlice),
              err |-> NilErr, requests |-> lv.requests]

\* As findString, giving up at the first item that differs.
findStringFirstOnly(slice, val) == Len(slice) > 0 /\ slice[1] = val

RECURSIVE findStringFrom(_, _, _)
findStringFrom(slice, val, i) ==
    IF i > Len(slice) THEN FALSE
    ELSE IF slice[i] = val THEN TRUE
    ELSE findStringFrom(slice, val, i + 1)

findString(slice, val) == findStringFrom(slice, val, 1)

\* The body of the second loop of ListDanglingVolumes.
ListDanglingVolumesBody(volume, clusterIDs, danglingVolumes) ==
    IF volume.ClusterID # ""
    THEN IF ~findString(clusterIDs, volume.ClusterID)
         THEN append(danglingVolumes, volume)
         ELSE danglingVolumes
    ELSE danglingVolumes

RECURSIVE ListDanglingVolumesLoop(_, _, _, _)
ListDanglingVolumesLoop(volumes, clusterIDs, i, danglingVolumes) ==
    IF i > Len(volumes) THEN danglingVolumes
    ELSE ListDanglingVolumesLoop(volumes, clusterIDs, i + 1,
             ListDanglingVolumesBody(volumes[i], clusterIDs, danglingVolumes))

ListDanglingVolumes ==
    LET clusters == ListKubernetesClusters
        clusterIDs == [i \in 1..Len(clusters.items) |-> clusters.items[i].ID]
        lv == ListVolumes
    IN  IF clusters.err # NilErr
        THEN [val |-> NilSlice, err |-> decodeError(clusters.err), requests |-> <<>>]
        ELSE IF lv.err # NilErr
        THEN [val |-> NilSlice, err |-> decodeError(lv.err), requests |-> lv.requests]
        ELSE [val |-> ListDanglingVolumesLoop(lv.val.elems, clusterIDs, 1, MakeSlice),
              err |-> NilErr, requests |-> lv.requests]

----------------------------------------------------------------------------
(* The operations that change something. *)

\* c.SendDeleteRequest(path)
SendDeleteRequest(path) ==
    [req |-> [method |-> "DELETE", path |-> path],
     err |-> srvWrite.err, resp |-> srvWrite.body]

\* c.SendPostRequest(path, body)
SendPostRequest(path, body) ==
    [req |-> [method |-> "POST", path |-> path],
     err |-> srvWrite.err, resp |-> srvWrite.body]

\* c.SendPutRequest(path, body)
SendPutRequest(path, body) ==
    [req |-> [method |-> "PUT", path |-> path],
     err |-> srvWrite.err, resp |-> srvWrite.body]

ZeroResponse == [ID |-> "", Result |-> ""]

ZeroRule == [ID |-> "", FirewallID |-> ""]

\* c.DecodeSimpleResponse(resp)
DecodeSimpleResponse(resp) ==
    IF resp.kind = "object"
    THEN [val |-> Ptr([ID |-> resp.ID, Result |-> resp.Result]), err |-> NilErr]
    ELSE [val |-> NilPtr(ZeroResponse), err |-> JsonErr]

DeleteVolume(id) ==
    LET r == SendDeleteRequest("/v2/volumes/" \o id)
    IN  IF r.err # NilErr
        THEN [val |-> NilPtr(ZeroResponse), err |-> decodeError(r.err), requests |-> <<r.req>>]
        ELSE [val |-> DecodeSimpleResponse(r.resp).val,
              err |-> DecodeSimpleResponse(r.resp).err, requests |-> <<r.req>>]

\* As DeleteVolumeAndAllSnapshot, without the query of the path.
DeleteVolumeAndAllSnapshotNoFlag(volumeID) ==
    LET r == SendDeleteRequest("/v2/volumes/" \o volumeID)
    IN  IF r.err # NilErr
        THEN [val |-> NilPtr(ZeroResponse), err |-> decodeError(r.err), requests |-> <<r.req>>]
        ELSE [val |-> DecodeSimpleResponse(r.resp).val,
              err |-> DecodeSimpleResponse(r.resp).err, requests |-> <<r.req>>]

DeleteVolumeAndAllSnapshot(volumeID) ==
    LET r == SendDeleteRequest("/v2/volumes/" \o volumeID \o "?delete_snapshot=true")
    IN  IF r.err # NilErr
        THEN [val |-> NilPtr(ZeroResponse), err |-> decodeError(r.err), requests |-> <<r.req>>]
        ELSE [val |-> DecodeSimpleResponse(r.resp).val,
              err |-> DecodeSimpleResponse(r.resp).err, requests |-> <<r.req>>]

DetachVolume(id) ==
    LET r == SendPutRequest("/v2/volumes/" \o id \o "/detach", "region")
    IN  IF r.err # NilErr
        THEN [val |-> NilPtr(ZeroResponse), err |-> decodeError(r.err), requests |-> <<r.req>>]
        ELSE [val |-> DecodeSimpleResponse(r.resp).val,
              err |-> DecodeSimpleResponse(r.resp).err, requests |-> <<r.req>>]

DeleteFirewall(id) ==
    LET r == SendDeleteRequest("/v2/firewalls/" \o id)
    IN  IF r.err # NilErr
        THEN [val |-> NilPtr(ZeroResponse), err |-> r.err, requests |-> <<r.req>>]
        ELSE [val |-> DecodeSimpleResponse(r.resp).val,
              err |-> DecodeSimpleResponse(r.resp).err, requests |-> <<r.req>>]

DeleteFirewallRule(id, id_rule) ==
    LET r == SendDeleteRequest("/v2/firewalls/" \o id \o "/rules/" \o id_rule)
    IN  IF r.err # NilErr
        THEN [val |-> NilPtr(ZeroResponse), err |-> r.err, requests |-> <<r.req>>]
        ELSE [val |-> DecodeSimpleResponse(r.resp).val,
              err |-> DecodeSimpleResponse(r.resp).err, requests |-> <<r.req>>]

\* json.NewDecoder(bytes.NewReader(resp)).Decode(rule), rule a new FirewallRule
DecodeRule(resp, firewallID) ==
    IF resp.kind = "object"
    THEN [val |-> Ptr([ID |-> resp.ID, FirewallID |-> firewallID]), err |-> NilErr]
    ELSE [val |-> NilPtr(ZeroRule), err |-> JsonErr]

\* As NewFirewallRule, without the test of the firewall id.
NewFirewallRuleUnchecked(r) ==
    LET s == SendPostRequest("/v2/firewalls/" \o r.FirewallID \o "/rules", r)
    IN  IF s.err # NilErr
        THEN [val |-> NilPtr(ZeroRule), err |-> s.err, requests |-> <<s.req>>]
        ELSE [val |-> DecodeRule(s.resp, r.FirewallID).val,
              err |-> DecodeRule(s.resp, r.FirewallID).err, requests |-> <<s.req>>]

NewFirewallRule(r) ==
    LET s == SendPostRequest("/v2/firewalls/" \o r.FirewallID \o "/rules", r)
    IN  IF Len(r.FirewallID) = 0
        THEN [val |-> NilPtr(ZeroRule), err |-> Errorf("the firewall ID is empty"),
              requests |-> <<>>]
        ELSE IF s.err # NilErr
        THEN [val |-> NilPtr(ZeroRule), err |-> s.err, requests |-> <<s.req>>]
        ELSE [val |-> DecodeRule(s.resp, r.FirewallID).val,
              err |-> DecodeRule(s.resp, r.FirewallID).err, requests |-> <<s.req>>]

----------------------------------------------------------------------------
(* The calls. *)

ListVolumesCall ==
    /\ op' = "ListVolumes"
    /\ arg' = ""
    /\ requests' = ListVolumes.requests
    /\ ret' = ListVolumes.val
    /\ err' = ListVolumes.err
    /\ locals' = NoLocals
    /\ UNCHANGED srv

\* The strings searched for: an id, a longer id, a name, a fragment, a
\* string that occurs nowhere, and the empty string.
VolumeSearches == {"v1", "v12", "db", "2", "x", ""}

FindVolumeCall ==
    \E search \in VolumeSearches :
        /\ op' = "FindVolume"
        /\ arg' = search
        /\ requests' = FindVolume(search).requests
        /\ ret' = FindVolume(search).val
        /\ err' = FindVolume(search).err
        /\ locals' = FindVolume(search).locals
        /\ UNCHANGED srv

ListFirewallsCall ==
    /\ op' = "ListFirewalls"
    /\ arg' = ""
    /\ requests' = ListFirewalls.requests
    /\ ret' = ListFirewalls.val
    /\ err' = ListFirewalls.err
    /\ locals' = NoLocals
    /\ UNCHANGED srv

\* The strings searched for among the firewalls.
FirewallSearches == {"f1", "web", "2", "x", ""}

FindFirewallCall ==
    \E search \in FirewallSearches :
        /\ op' = "FindFirewall"
        /\ arg' = search
        /\ requests' = FindFirewall(search).requests
        /\ ret' = FindFirewall(search).val
        /\ err' = FindFirewall(search).err
        /\ locals' = FindFirewall(search).locals
        /\ UNCHANGED srv

\* The ids of the clusters, given by the API and never empty.
ClusterIDs == {"c1", "c2", "c3"}

ListVolumesForClusterCall ==
    \E clusterID \in {"c1", "prod"} :
        /\ op' = "ListVolumesForCluster"
        /\ arg' = clusterID
        /\ requests' = ListVolumesForCluster(clusterID).requests
        /\ ret' = ListVolumesForCluster(clusterID).val
        /\ err' = ListVolumesForCluster(clusterID).err
        /\ locals' = NoLocals
        /\ UNCHANGED srv

ListDanglingVolumesCall ==
    /\ op' = "ListDanglingVolumes"
    /\ arg' = ""
    /\ requests' = ListDanglingVolumes.requests
    /\ ret' = ListDanglingVolumes.val
    /\ err' = ListDanglingVolumes.err
    /\ locals' = NoLocals
    /\ UNCHANGED srv

\* The ids a caller passes to the operations that change something.
VolumeIDs == {"", "v1", "v12", "v2"}

FirewallIDs == {"", "f1", "f2"}

RuleIDs == {"r1", "r2"}

\* The outcome of a call of one argument.
Returns(name, a, out) ==
    /\ op' = name
    /\ arg' = a
    /\ requests' = out.requests
    /\ ret' = out.val
    /\ err' = out.err
    /\ locals' = NoLocals
    /\ UNCHANGED srv

DeleteVolumeCall ==
    \E id \in VolumeIDs : Returns("DeleteVolume", id, DeleteVolume(id))

DeleteVolumeAndAllSnapshotCall ==
    \E id \in VolumeIDs :
        Returns("DeleteVolumeAndAllSnapshot", id, DeleteVolumeAndAllSnapshot(id))

DetachVolumeCall ==
    \E id \in VolumeIDs : Returns("DetachVolume", id, DetachVolume(id))

DeleteFirewallCall ==
    \E id \in FirewallIDs : Returns("DeleteFirewall", id, DeleteFirewall(id))

DeleteFirewallRuleCall ==
    \E id \in FirewallIDs, id_rule \in RuleIDs :
        Returns("DeleteFirewallRule", <<id, id_rule>>, DeleteFirewallRule(id, id_rule))

NewFirewallRuleCall ==
    \E r \in [FirewallID : FirewallIDs, Protocol : {"tcp", "udp"}] :
        Returns("NewFirewallRule", r, NewFirewallRule(r))

----------------------------------------------------------------------------
(* Specifications. *)

NoCall ==
    /\ op = "none"
    /\ arg = ""
    /\ requests = <<>>
    /\ ret = NilSlice
    /\ err = NilErr
    /\ locals = NoLocals

NoClusters == [err |-> NotFoundErr, items |-> <<>>]

NoLookup == [err |-> NotFoundErr, cluster |-> [ID |-> ""]]

NoWrite == [err |-> TransportErr, body |-> [kind |-> "malformed", ID |-> "", Result |-> ""]]

\* Volumes that belong to no cluster: ids and names that are equal to,
\* contain, or are unrelated to the strings searched for.
FindVolumes == [ID : {"v1", "v12", "v2"}, Name : {"", "db", "db2"}, ClusterID : {""}]

InitVolume ==
    /\ srvVolumes \in GetAnswers(FindVolumes, MaxVolumes)
    /\ srvFirewalls = NoAnswer
    /\ srvClusters = NoClusters
    /\ srvLookup = NoLookup
    /\ srvWrite = NoWrite
    /\ NoCall

NextVolume == ListVolumesCall \/ FindVolumeCall

SpecVolume == InitVolume /\ [][NextVolume]_vars

\* Firewalls whose ids and names are equal to, contain, or are unrelated to
\* the strings searched for.
FindFirewalls == [ID : {"f1", "f12", "f2"}, Name : {"web", "web2"}]

InitFirewall ==
    /\ srvVolumes = NoAnswer
    /\ srvFirewalls \in GetAnswers(FindFirewalls, MaxFirewalls)
    /\ srvClusters = NoClusters
    /\ srvLookup = NoLookup
    /\ srvWrite = NoWrite
    /\ NoCall

NextFirewall == ListFirewallsCall \/ FindFirewallCall

SpecFirewall == InitFirewall /\ [][NextFirewall]_vars

\* The two listings, each against its own answers.
InitListing == InitVolume \/ InitFirewall

NextListing == ListVolumesCall \/ ListFirewallsCall

SpecListing == InitListing /\ [][NextListing]_vars

\* Volumes of no cluster, of a cluster, of a cluster that may be gone.
ClusterVolumes == [ID : {"v1", "v2"}, Name : {"db"}, ClusterID : {""} \cup ClusterIDs]

Clusters == [ID : ClusterIDs]

InitDangling ==
    /\ srvVolumes \in GetAnswers(ClusterVolumes, MaxVolumes)
    /\ srvFirewalls = NoAnswer
    /\ srvClusters \in
         {[err |-> NilErr, items |-> l] : l \in SeqsUpTo(Clusters, MaxClusters)}
         \cup {[err |-> TransportErr, items |-> <<>>]}
    /\ srvLookup = NoLookup
    /\ srvWrite = NoWrite
    /\ NoCall

NextDangling == ListDanglingVolumesCall \/ ListVolumesCall

SpecDangling == InitDangling /\ [][NextDangling]_vars

InitForCluster ==
    /\ srvVolumes \in GetAnswers(ClusterVolumes, MaxVolumes)
    /\ srvFirewalls = NoAnswer
    /\ srvClusters = NoClusters
    /\ srvLookup \in
         {[err |-> NilErr, cluster |-> c] : c \in Clusters}
         \cup {[err |-> NotFoundErr, cluster |-> [ID |-> ""]]}
    /\ srvWrite = NoWrite
    /\ NoCall

NextForCluster == ListVolumesForClusterCall \/ ListVolumesCall

SpecForCluster == InitForCluster /\ [][NextForCluster]_vars

\* What the API can answer to a request that changes something.
WriteAnswers ==
    {[err |-> NilErr, body |-> [kind |-> "object", ID |-> id, Result |-> "success"]] :
        id \in RuleIDs}
    \cup {[err |-> NilErr, body |-> [kind |-> "object", ID |-> "", Result |-> "failed"]],
          [err |-> NilErr, body |-> [kind |-> "malformed", ID |-> "", Result |-> ""]],
          [err |-> TransportErr, body |-> [kind |-> "malformed", ID |-> "", Result |-> ""]]}

InitWrite ==
    /\ srvVolumes = NoAnswer
    /\ srvFirewalls = NoAnswer
    /\ srvClusters = NoClusters
    /\ srvLookup = NoLookup
    /\ srvWrite \in WriteAnswers
    /\ NoCall

NextWrite ==
    \/ DeleteVolumeCall
    \/ DeleteVolumeAndAllSnapshotCall
    \/ DetachVolumeCall
    \/ DeleteFirewallCall
    \/ DeleteFirewallRuleCall
    \/ NewFirewallRuleCall

SpecWrite == InitWrite /\ [][NextWrite]_vars


----------------------------------------------------------------------------
(* Properties of FindVolume. *)

\* The listing FindVolume scans, when ListVolumes returned one.
VolumeListingOK == srvVolumes.err = NilErr /\ srvVolumes.body.kind # "malformed"

VolumeListing == srvVolumes.body.items

\* v is a volume or a firewall.
IsExact(v, s) == v.ID = s \/ v.Name = s

IsHit(v, s) == Contains(v.ID, s) \/ Contains(v.Name, s)

ExactAt(s) == {i \in DOMAIN VolumeListing : IsExact(VolumeListing[i], s)}

PartialAt(s) ==
    {i \in DOMAIN VolumeListing :
        IsHit(VolumeListing[i], s) /\ ~IsExact(VolumeListing[i], s)}

Smallest(S) == CHOOSE i \in S : \A j \in S : i <= j

Largest(S) == CHOOSE i \in S : \A j \in S : j <= i

\* C1: whenever the listing holds a volume whose id or name equals the
\* search, FindVolume succeeds and returns a volume of the listing whose id
\* or name equals the search, whatever the number and the position of the
\* volumes that only contain the search: never one of those, never an error.
C1_ExactMatchWins ==
    (op = "FindVolume" /\ VolumeListingOK /\ ExactAt(arg) # {}) =>
        /\ err = NilErr
        /\ ~ret.isNil
        /\ IsExact(ret.val, arg)
        /\ \E i \in ExactAt(arg) : ret.val = VolumeListing[i]

\* A call that found the exact match between two volumes that only contain
\* the search.
C1_Witness ==
    /\ op = "FindVolume"
    /\ VolumeListingOK
    /\ \E i, j, k \in DOMAIN VolumeListing :
        /\ i < j /\ j < k
        /\ i \in PartialAt(arg) /\ j \in ExactAt(arg) /\ k \in PartialAt(arg)
        /\ ret = Ptr(VolumeListing[j])
    /\ err = NilErr

\* C2: with no volume equal to the search, FindVolume fails with
\* MultipleMatchesError exactly when two or more volumes contain the search,
\* and returns the volume without error when exactly one does.
C2_PartialMatches ==
    (op = "FindVolume" /\ VolumeListingOK /\ ExactAt(arg) = {}) =>
        /\ err.type = "MultipleMatchesError" <=> Cardinality(PartialAt(arg)) >= 2
        /\ Cardinality(PartialAt(arg)) = 1 =>
            /\ err = NilErr
            /\ \A i \in PartialAt(arg) : ret = Ptr(VolumeListing[i])

\* A call that failed on two partial matches in a listing of three volumes.
C2_Witness ==
    /\ op = "FindVolume"
    /\ VolumeListingOK
    /\ ExactAt(arg) = {}
    /\ Cardinality(PartialAt(arg)) = 2
    /\ Len(VolumeListing) = 3
    /\ err.type = "MultipleMatchesError"
    /\ ret.isNil

\* C3: FindVolume fails with ZeroMatchesError, returning no volume, exactly
\* when the listing was fetched and no volume of it has an id or a name that
\* contains the search.
C3_ZeroMatches ==
    op = "FindVolume" =>
        /\ err.type = "ZeroMatchesError" <=>
            (VolumeListingOK /\
             \A i \in DOMAIN VolumeListing : ~IsHit(VolumeListing[i], arg))
        /\ err.type = "ZeroMatchesError" => ret.isNil

\* A call that found nothing in a listing of two volumes or more.
C3_Witness ==
    /\ op = "FindVolume"
    /\ VolumeListingOK
    /\ Len(VolumeListing) >= 2
    /\ err.type = "ZeroMatchesError"
    /\ ret.isNil

\* C10: FindVolume scans the whole listing; with several volumes equal to
\* the search it returns the last of them, and the volumes that only contain
\* the search are counted up to the first exact match and not after it.
C10_LastExactMatch ==
    (op = "FindVolume" /\ VolumeListingOK /\ ExactAt(arg) # {}) =>
        /\ locals.scanned = Len(VolumeListing)
        /\ ret = Ptr(VolumeListing[Largest(ExactAt(arg))])
        /\ locals.partialMatchesCount =
               Cardinality({i \in PartialAt(arg) : i < Smallest(ExactAt(arg))})

\* A call that met two different volumes equal to the search, then one that
\* only contains it.
C10_Witness ==
    /\ op = "FindVolume"
    /\ VolumeListingOK
    /\ \E i, j, k \in DOMAIN VolumeListing :
        /\ i < j /\ j < k
        /\ i \in ExactAt(arg) /\ j \in ExactAt(arg) /\ k \in PartialAt(arg)
        /\ VolumeListing[i] # VolumeListing[j]
        /\ ret = Ptr(VolumeListing[j])
    /\ locals.partialMatchesCount = 0

----------------------------------------------------------------------------
(* Properties of the queries that depend on the clusters. *)

ListedClusterIDs == {srvClusters.items[i].ID : i \in DOMAIN srvClusters.items}

IsDangling(v) == v.ClusterID # "" /\ v.ClusterID \notin ListedClusterIDs

\* C4: when the cluster listing and the volume listing succeed,
\* ListDanglingVolumes returns the volumes of the volume listing whose
\* cluster_id is not empty and is the id of no listed cluster: all of them,
\* only them, each as often as listed and in the order of the listing.
C4_DanglingVolumes ==
    (op = "ListDanglingVolumes" /\ srvClusters.err = NilErr /\ VolumeListingOK) =>
        /\ err = NilErr
        /\ ret.elems = SelectSeq(VolumeListing, IsDangling)
        /\ \A i \in DOMAIN ret.elems :
            /\ ret.elems[i].ClusterID # ""
            /\ ret.elems[i].ClusterID \notin ListedClusterIDs

\* A call over two clusters that kept one volume of three: the others have
\* no cluster or the second cluster of the listing.
C4_Witness ==
    /\ op = "ListDanglingVolumes"
    /\ srvClusters.err = NilErr
    /\ Len(srvClusters.items) = 2
    /\ VolumeListingOK
    /\ \E i, j, k \in DOMAIN VolumeListing :
        /\ VolumeListing[i].ClusterID = ""
        /\ VolumeListing[j].ClusterID = srvClusters.items[2].ID
        /\ IsDangling(VolumeListing[k])
        /\ ret.elems = <<VolumeListing[k]>>
    /\ err = NilErr

InCluster(v) == v.ClusterID = srvLookup.cluster.ID

\* C8: ListVolumesForCluster resolves the cluster first; when that fails it
\* returns the error of the lookup and does not request the volume listing;
\* when it succeeds and the listing is fetched it returns the volumes of the
\* listing whose cluster_id is the id of the cluster found, in the order of
\* the listing, none of them with an empty or another cluster_id.
C8_VolumesForCluster ==
    op = "ListVolumesForCluster" =>
        /\ srvLookup.err # NilErr =>
            /\ err = srvLookup.err
            /\ ret.isNil
            /\ \A i \in DOMAIN requests : requests[i].path # "/v2/volumes"
        /\ (srvLookup.err = NilErr /\ VolumeListingOK) =>
            /\ err = NilErr
            /\ ret.elems = SelectSeq(VolumeListing, InCluster)
            /\ \A i \in DOMAIN ret.elems :
                /\ ret.elems[i].ClusterID # ""
                /\ ret.elems[i].ClusterID = srvLookup.cluster.ID

\* A call that kept one volume of three: the others have no cluster or
\* another cluster.
C8_Witness ==
    /\ op = "ListVolumesForCluster"
    /\ srvLookup.err = NilErr
    /\ VolumeListingOK
    /\ \E i, j, k \in DOMAIN VolumeListing :
        /\ VolumeListing[i].ClusterID = ""
        /\ VolumeListing[j].ClusterID \notin {"", srvLookup.cluster.ID}
        /\ ret.elems = <<VolumeListing[k]>>
    /\ err = NilErr

----------------------------------------------------------------------------
(* Properties of the operations that change something. *)

\* C5: NewFirewallRule with an empty firewall id returns an error and no
\* rule and issues no request; with a firewall id it issues one request, a
\* POST to /v2/firewalls/{firewall_id}/rules.
C5_FirewallIDRequired ==
    op = "NewFirewallRule" =>
        /\ arg.FirewallID = "" =>
            /\ err # NilErr
            /\ ret.isNil
            /\ requests = <<>>
        /\ arg.FirewallID # "" =>
            requests = <<[method |-> "POST",
                          path |-> "/v2/firewalls/" \o arg.FirewallID \o "/rules"]>>

\* A call without firewall id, against an API that would have answered.
C5_Witness ==
    /\ op = "NewFirewallRule"
    /\ arg.FirewallID = ""
    /\ srvWrite.err = NilErr
    /\ srvWrite.body.kind = "object"
    /\ requests = <<>>
    /\ err = Errorf("the firewall ID is empty")
    /\ ret.isNil

DeleteOps == {"DeleteVolume", "DeleteVolumeAndAllSnapshot"}

\* C6: a call of DeleteVolumeAndAllSnapshot issues one request, a DELETE to
\* /v2/volumes/{id}?delete_snapshot=true, whatever the API answers; a call of
\* DeleteVolume issues one DELETE to /v2/volumes/{id}; a call of the one that
\* follows a call of the other for the same id issues another request.
C6_CascadeDelete ==
    [][/\ op' = "DeleteVolumeAndAllSnapshot" =>
            requests' = <<[method |-> "DELETE",
                           path |-> "/v2/volumes/" \o arg' \o "?delete_snapshot=true"]>>
       /\ op' = "DeleteVolume" =>
            requests' = <<[method |-> "DELETE", path |-> "/v2/volumes/" \o arg']>>
       /\ (op \in DeleteOps /\ op' \in DeleteOps /\ op' # op /\ arg' = arg) =>
            requests' # requests]_vars

\* A call of DeleteVolumeAndAllSnapshot that the transport failed.
C6_Witness ==
    /\ op = "DeleteVolumeAndAllSnapshot"
    /\ arg = "v1"
    /\ srvWrite.err # NilErr
    /\ err # NilErr
    /\ requests = <<[method |-> "DELETE", path |-> "/v2/volumes/v1?delete_snapshot=true"]>>

----------------------------------------------------------------------------
(* Properties of the listings. *)

ListingAnswer == IF op = "ListVolumes" THEN srvVolumes ELSE srvFirewalls

\* C7: ListVolumes and ListFirewalls, when they return no error, return the
\* elements of the collection of the API in its order, as an empty and not
\* nil slice when it has none; they return a nil slice only with an error.
C7_ListingNeverNil ==
    op \in {"ListVolumes", "ListFirewalls"} =>
        /\ (err = NilErr /\ ListingAnswer.body.kind = "array") =>
            ret = [isNil |-> FALSE, elems |-> ListingAnswer.body.items]
        /\ ret.isNil => err # NilErr

----------------------------------------------------------------------------
(* Properties of FindFirewall. *)

FirewallListingOK == srvFirewalls.err = NilErr /\ srvFirewalls.body.kind # "malformed"

FirewallListing == srvFirewalls.body.items

HitsAt(s) == {i \in DOMAIN FirewallListing : IsHit(FirewallListing[i], s)}

\* C9: FindFirewall counts the firewalls whose id or name contains the
\* search, one that equals it like any other: with one hit it returns that
\* firewall, at the second hit it stops with the multiple-matches error, and
\* with none it fails with the zero-matches error.
C9_FirewallHits ==
    (op = "FindFirewall" /\ FirewallListingOK) =>
        /\ Cardinality(HitsAt(arg)) = 1 =>
            /\ err = NilErr
            /\ \A i \in HitsAt(arg) : ret = Ptr(FirewallListing[i])
        /\ Cardinality(HitsAt(arg)) >= 2 =>
            /\ ret.isNil
            /\ err = Errorf("unable to find " \o arg \o " because there were multiple matches")
            /\ locals.scanned = Smallest(HitsAt(arg) \ {Smallest(HitsAt(arg))})
        /\ HitsAt(arg) = {} =>
            /\ ret.isNil
            /\ err = Errorf("unable to find " \o arg \o ", zero matches")

\* A call that stopped at the second of three firewalls, the first of which
\* equals the search.
C9_Witness ==
    /\ op = "FindFirewall"
    /\ FirewallListingOK
    /\ Len(FirewallListing) = 3
    /\ IsExact(FirewallListing[1], arg)
    /\ ~IsExact(FirewallListing[2], arg)
    /\ IsHit(FirewallListing[2], arg)
    /\ locals.scanned = 2
    /\ ret.isNil
    /\ err = Errorf("unable to find " \o arg \o " because there were multiple matches")

====
